---- MODULE Spec2Model ----
(***************************************************************************)
(* The help service of Snider/help (help.go): New makes a Service from its *)
(* Options; the Service holds a core and a display collaborator, with the  *)
(* operations Init, ServiceStartup, Show and ShowAt.  Strings the code     *)
(* computes (the URL) are sequences of one-character strings; strings the  *)
(* code only passes on are TLA+ strings.  Every call records what it       *)
(* returned and the outbound calls it made on its collaborators in the     *)
(* variable ret.                                                           *)
(*                                                                         *)
(* Spec          calls on the service New(Options{}) returns               *)
(* SpecNew       the same, for every Options value and fs.Sub result       *)
(* SpecInjected  the same, from the state after a first Init(core, display)*)
(* SpecCapture   Show and ShowAt calls, the caller keeping the first       *)
(*               message dispatched                                        *)
(* SpecConcurrent  Show and ShowAt calls of several goroutines, statement  *)
(*               by statement, on a service nobody re-initializes          *)
(* SpecRace      the same, with one goroutine calling Init meanwhile       *)
(***************************************************************************)
EXTENDS Naturals, Sequences, FiniteSets, TLC

\* Longest anchor passed to ShowAt.
MaxAnchorLen == 2

\* The characters anchors are built from: the fragment separator, the path
\* separator, a space and an ordinary letter.
AnchorChars == {"#", "/", " ", "a"}

RECURSIVE StringsUpTo(_)
StringsUpTo(n) ==
    IF n = 0 THEN {<<>>}
    ELSE LET S == StringsUpTo(n - 1)
         IN  S \cup {Append(s, c) : s \in S, c \in AnchorChars}

\* The anchor of the README's example, "ui/how/settings#resetPassword", with
\* every word shortened to one letter: a page path, '#', a fragment.
ReadmeAnchor == <<"a", "/", "a", "#", "a">>

\* The anchors ShowAt is called with.
Anchors == StringsUpTo(MaxAnchorLen) \cup {ReadmeAnchor}

\* Go's nil: the absent collaborator, the absent singleton, the absent error.
Nil == "nil"

\* Values of the Core interface a caller can inject.
Cores == {"core1", "core2"}

\* Values of the Display interface a caller can inject.
Displays == {"display1", "display2"}

\* What the injected core's ACTION returns (MockCore.ActionErr).
ActionErrs == {Nil, "assert.AnError general error for testing", "no handler for action"}

\* What application.Get() returns: nil or the running application.
Apps == {Nil, "app"}

\* Values of fs.FS: the nil interface, a filesystem the caller supplies,
\* os.DirFS(dir), and the subtree fs.Sub(helpStatic, "public").
NilFS == [kind |-> "nil", of |-> ""]
CallerFS(name) == [kind |-> "caller", of |-> name]
DirFS(dir) == [kind |-> "os.DirFS", of |-> dir]
SubFS(dir) == [kind |-> "fs.Sub(helpStatic)", of |-> dir]

\* Options.Source as callers give it: empty, the sentinel, a directory of a
\* static site, and a directory that does not exist.
Sources == {"", "mkdocs", "path/to/your/static/site", "no/such/dir"}

\* Options.Assets as callers give it: nil or an embed.FS of their own.
AssetsGiven == {NilFS, CallerFS("myDocs")}

\* The Options values New is called with.
OptionsGiven == [Source : Sources, Assets : AssetsGiven]

\* What fs.Sub(helpStatic, "public") returns: the subtree, or an error when
\* the subtree cannot be located.
SubResults ==
    {[fs |-> SubFS("public"), err |-> Nil],
     [fs |-> NilFS, err |-> "sub public: invalid argument"]}

VARIABLES
    core,       \* Service.core
    display,    \* Service.display
    assets,     \* Service.assets
    opts,       \* Service.opts
    globalApp,  \* the wails application singleton read by application.Get()
    newCall,    \* the call of New that made the service: its argument and
                \* the (service, error) pair it returned
    lastInit,   \* the arguments of the most recent call of Init, if any
    captured,   \* the message a caller kept from the first dispatch it saw
    ret,        \* the last call: its name, argument, the state it ran in,
                \* the error it returned and the outbound calls it made
    calls,      \* per goroutine, the Show or ShowAt call it is in: the
                \* statement it is at and what it has read so far
    initCall,   \* the Init call of the goroutine that re-initializes
    log         \* the outbound calls the collaborators received, in order

\* The variables of the statement-by-statement view.
conc == <<calls, initCall, log>>

vars == <<core, display, assets, opts, globalApp, newCall, lastInit, captured, ret,
          calls, initCall, log>>

----------------------------------------------------------------------------
\* Outbound calls, as the collaborators see them.

\* c.ACTION(msg), returning e
CallACTION(c, msg, e) == [call |-> "Core.ACTION", on |-> c, msg |-> msg, ret |-> e]

\* app.Window.NewWithOptions(options)
CallNewWithOptions(a, options) == [call |-> "Window.NewWithOptions", on |-> a, options |-> options]

\* c.App().Logger().Info(message)
CallLoggerInfo(c, message) ==
    << [call |-> "Core.App", on |-> c],
       [call |-> "App.Logger", on |-> c],
       [call |-> "Logger.Info", on |-> c, message |-> message] >>

----------------------------------------------------------------------------
\* The values the operations build.

\* fmt.Sprintf("/#%s", anchor)
SprintfURL_NoHash(anchor) == <<"/">> \o anchor
SprintfURL(anchor) == <<"/", "#">> \o anchor

\* application.WebviewWindowOptions{Title: "Help", Width: 800, Height: 600, URL: url}
WebviewWindowOptions_NoURL(url) == [Title |-> "Help", Width |-> 800, Height |-> 600, URL |-> <<>>]
WebviewWindowOptions(url) == [Title |-> "Help", Width |-> 800, Height |-> 600, URL |-> url]

\* The message Show dispatches.
ShowMsg_WithURL ==
    [action |-> "display.open_window",
     name |-> "help",
     options |-> [Title |-> "Help", Width |-> 800, Height |-> 600, URL |-> <<"/">>]]
ShowMsg ==
    [action |-> "display.open_window",
     name |-> "help",
     options |-> [Title |-> "Help", Width |-> 800, Height |-> 600]]

\* The message ShowAt dispatches for the URL url.
ShowAtMsg(url) ==
    [action |-> "display.open_window",
     name |-> "help",
     options |-> [Title |-> "Help", Width |-> 800, Height |-> 600, URL |-> url]]

\* A call's outcome: the error it returns and the outbound calls it made.
Outcome(err, out) == [err |-> err, out |-> out]

\* A *Service: the nil pointer, or a pointer to a service with its fields.
NilService == <<>>
Ref(service) == <<service>>

\* The pair New returns.
NewResult(s, err) == [s |-> s, err |-> err]

\* func New(opts Options) (*Service, error), sub being what fs.Sub returns
New_SourceFirst(o, sub) ==
    LET o1 == IF o.Source = "" THEN [o EXCEPT !.Source = "mkdocs"] ELSE o
        service(a) == [core |-> Nil, display |-> Nil, assets |-> a, opts |-> o1]
    IN  IF o1.Source # "mkdocs"
        THEN NewResult(Ref(service(DirFS(o1.Source))), Nil)
        ELSE IF o1.Assets # NilFS
        THEN NewResult(Ref(service(o1.Assets)), Nil)
        ELSE IF sub.err # Nil
        THEN NewResult(NilService, sub.err)
        ELSE NewResult(Ref(service(sub.fs)), Nil)
New_ServiceWithError(o, sub) ==
    LET o1 == IF o.Source = "" THEN [o EXCEPT !.Source = "mkdocs"] ELSE o
        service(a) == [core |-> Nil, display |-> Nil, assets |-> a, opts |-> o1]
    IN  IF o1.Assets # NilFS
        THEN NewResult(Ref(service(o1.Assets)), Nil)
        ELSE IF o1.Source # "mkdocs"
        THEN NewResult(Ref(service(DirFS(o1.Source))), Nil)
        ELSE NewResult(Ref(service(sub.fs)), sub.err)
New_MissingDirFails(o, sub) ==
    LET o1 == IF o.Source = "" THEN [o EXCEPT !.Source = "mkdocs"] ELSE o
        service(a) == [core |-> Nil, display |-> Nil, assets |-> a, opts |-> o1]
    IN  IF o1.Assets # NilFS
        THEN NewResult(Ref(service(o1.Assets)), Nil)
        ELSE IF o1.Source # "mkdocs"
        THEN IF o1.Source = "no/such/dir"
             THEN NewResult(NilService, "stat no/such/dir: no such file or directory")
             ELSE NewResult(Ref(service(DirFS(o1.Source))), Nil)
        ELSE IF sub.err # Nil
        THEN NewResult(NilService, sub.err)
        ELSE NewResult(Ref(service(sub.fs)), Nil)
New(o, sub) ==
    LET o1 == IF o.Source = "" THEN [o EXCEPT !.Source = "mkdocs"] ELSE o
        service(a) == [core |-> Nil, display |-> Nil, assets |-> a, opts |-> o1]
    IN  IF o1.Assets # NilFS
        THEN NewResult(Ref(service(o1.Assets)), Nil)
        ELSE IF o1.Source # "mkdocs"
        THEN NewResult(Ref(service(DirFS(o1.Source))), Nil)
        ELSE IF sub.err # Nil
        THEN NewResult(NilService, sub.err)
        ELSE NewResult(Ref(service(sub.fs)), Nil)

----------------------------------------------------------------------------
\* The operations, as functions of the fields and the environment they read:
\* c = s.core, d = s.display, a = application.Get(), e = what ACTION returns.

\* func (s *Service) ServiceStartup(context.Context) error
ServiceStartup_NoCheck(c) == Outcome(Nil, CallLoggerInfo(c, "Help service started"))
ServiceStartup_LogFirst(c) ==
    IF c = Nil
    THEN Outcome("core runtime not initialized", CallLoggerInfo(c, "Help service started"))
    ELSE Outcome(Nil, CallLoggerInfo(c, "Help service started"))
ServiceStartup_LogTwice(c) ==
    IF c = Nil
    THEN Outcome("core runtime not initialized", <<>>)
    ELSE Outcome(Nil, CallLoggerInfo(c, "Help service started")
                      \o CallLoggerInfo(c, "Help service started"))
ServiceStartup(c) ==
    IF c = Nil
    THEN Outcome("core runtime not initialized", <<>>)
    ELSE Outcome(Nil, CallLoggerInfo(c, "Help service started"))

\* func (s *Service) Show() error
Show_DisplayFirst(c, d, a, e) ==
    IF d = Nil
    THEN IF a = Nil
         THEN Outcome("wails application not running", <<>>)
         ELSE Outcome(Nil, <<CallNewWithOptions(a, WebviewWindowOptions(<<"/">>))>>)
    ELSE IF c = Nil
    THEN Outcome("core runtime not initialized", <<>>)
    ELSE Outcome(e, <<CallACTION(c, ShowMsg, e)>>)
Show_FallbackAfterError(c, d, a, e) ==
    IF c = Nil
    THEN Outcome("core runtime not initialized", <<>>)
    ELSE IF d = Nil
    THEN IF a = Nil
         THEN Outcome("wails application not running", <<>>)
         ELSE Outcome(Nil, <<CallNewWithOptions(a, WebviewWindowOptions(<<"/">>))>>)
    ELSE IF e # Nil /\ a # Nil
    THEN Outcome(Nil, <<CallACTION(c, ShowMsg, e),
                        CallNewWithOptions(a, WebviewWindowOptions(<<"/">>))>>)
    ELSE Outcome(e, <<CallACTION(c, ShowMsg, e)>>)
Show_AppRequired(c, d, a, e) ==
    IF c = Nil
    THEN Outcome("core runtime not initialized", <<>>)
    ELSE IF a = Nil
    THEN Outcome("wails application not running", <<>>)
    ELSE IF d = Nil
    THEN Outcome(Nil, <<CallNewWithOptions(a, WebviewWindowOptions(<<"/">>))>>)
    ELSE Outcome(e, <<CallACTION(c, ShowMsg, e)>>)
Show(c, d, a, e) ==
    IF c = Nil
    THEN Outcome("core runtime not initialized", <<>>)
    ELSE IF d = Nil
    THEN IF a = Nil
         THEN Outcome("wails application not running", <<>>)
         ELSE Outcome(Nil, <<CallNewWithOptions(a, WebviewWindowOptions(<<"/">>))>>)
    ELSE Outcome(e, <<CallACTION(c, ShowMsg, e)>>)

\* func (s *Service) ShowAt(anchor string) error
ShowAt_ErrorDropped(anchor, c, d, a, e) ==
    IF c = Nil
    THEN Outcome("core runtime not initialized", <<>>)
    ELSE IF d = Nil
    THEN IF a = Nil
         THEN Outcome("wails application not running", <<>>)
         ELSE Outcome(Nil, <<CallNewWithOptions(a, WebviewWindowOptions(SprintfURL(anchor)))>>)
    ELSE Outcome(Nil, <<CallACTION(c, ShowAtMsg(SprintfURL(anchor)), e)>>)
ShowAt_DispatchWithoutApp(anchor, c, d, a, e) ==
    IF c = Nil
    THEN Outcome("core runtime not initialized", <<>>)
    ELSE IF d = Nil /\ a # Nil
    THEN Outcome(Nil, <<CallNewWithOptions(a, WebviewWindowOptions(SprintfURL(anchor)))>>)
    ELSE Outcome(e, <<CallACTION(c, ShowAtMsg(SprintfURL(anchor)), e)>>)
ShowAt_LogsDispatchError(anchor, c, d, a, e) ==
    IF c = Nil
    THEN Outcome("core runtime not initialized", <<>>)
    ELSE IF d = Nil
    THEN IF a = Nil
         THEN Outcome("wails application not running", <<>>)
         ELSE Outcome(Nil, <<CallNewWithOptions(a, WebviewWindowOptions(SprintfURL(anchor)))>>)
    ELSE IF e # Nil
    THEN Outcome(e, <<CallACTION(c, ShowAtMsg(SprintfURL(anchor)), e),
                      [call |-> "Core.App", on |-> c],
                      [call |-> "App.Logger", on |-> c],
                      [call |-> "Logger.Error", on |-> c, message |-> e]>>)
    ELSE Outcome(e, <<CallACTION(c, ShowAtMsg(SprintfURL(anchor)), e)>>)
ShowAt(anchor, c, d, a, e) ==
    IF c = Nil
    THEN Outcome("core runtime not initialized", <<>>)
    ELSE IF d = Nil
    THEN IF a = Nil
         THEN Outcome("wails application not running", <<>>)
         ELSE Outcome(Nil, <<CallNewWithOptions(a, WebviewWindowOptions(SprintfURL(anchor)))>>)
    ELSE Outcome(e, <<CallACTION(c, ShowAtMsg(SprintfURL(anchor)), e)>>)

\* The other variant of the service found in the repository, which tests the
\* display before the core.

\* func (s *Service) Show() error, display-first variant
ShowDisplayFirst(c, d, a, e) ==
    IF d = Nil
    THEN IF a = Nil
         THEN Outcome("wails application not running", <<>>)
         ELSE Outcome(Nil, <<CallNewWithOptions(a, WebviewWindowOptions(<<"/">>))>>)
    ELSE IF c = Nil
    THEN Outcome("core runtime not initialized", <<>>)
    ELSE Outcome(e, <<CallACTION(c, ShowMsg, e)>>)

\* func (s *Service) ShowAt(anchor string) error, display-first variant
ShowAtDisplayFirst_NoCoreCheck(anchor, c, d, a, e) ==
    IF d = Nil
    THEN IF a = Nil
         THEN Outcome("wails application not running", <<>>)
         ELSE Outcome(Nil, <<CallNewWithOptions(a, WebviewWindowOptions(SprintfURL(anchor)))>>)
    ELSE Outcome(e, <<CallACTION(c, ShowAtMsg(SprintfURL(anchor)), e)>>)
ShowAtDisplayFirst(anchor, c, d, a, e) ==
    IF d = Nil
    THEN IF a = Nil
         THEN Outcome("wails application not running", <<>>)
         ELSE Outcome(Nil, <<CallNewWithOptions(a, WebviewWindowOptions(SprintfURL(anchor)))>>)
    ELSE IF c = Nil
    THEN Outcome("core runtime not initialized", <<>>)
    ELSE Outcome(e, <<CallACTION(c, ShowAtMsg(SprintfURL(anchor)), e)>>)

----------------------------------------------------------------------------
\* The state machine.

\* The record of a call: op(anchor) ran with the fields c, d and the
\* singleton a, and had the outcome o.
Called(op, anchor, c, d, a, o) ==
    [op |-> op, anchor |-> anchor, core |-> c, display |-> d, app |-> a,
     err |-> o.err, out |-> o.out]

\* No Init call yet; no message kept yet.
NoInit == [called |-> FALSE, core |-> Nil, display |-> Nil]
NoMsg == [kept |-> FALSE]

\* The goroutines that call Show and ShowAt.
Threads == {"t1", "t2"}

\* The anchors they pass: none and "a".
ThreadAnchors == {<<>>, <<"a">>}

\* A field not read yet.
Unread == "unread"

\* A goroutine that has not called yet.
Idle ==
    [pc |-> "idle", op |-> "", anchor |-> <<>>, c |-> Unread, d |-> Unread,
     a |-> Unread, used |-> Unread, e |-> Nil, err |-> Nil, out |-> <<>>]

\* Nobody calling.
NoCalls == [t \in Threads |-> Idle]
NoInitCall == [pc |-> "idle", core |-> Nil, display |-> Nil]

\* The state after New(o) returned, fs.Sub having returned sub and the
\* application singleton being a.  When New fails there is no service: the
\* field variables then hold zero values that nothing reads.
Constructed(o, sub, a) ==
    LET r == New(o, sub)
    IN  /\ newCall = [opts |-> o, s |-> r.s, err |-> r.err]
        /\ core = IF r.s = NilService THEN Nil ELSE r.s[1].core
        /\ display = IF r.s = NilService THEN Nil ELSE r.s[1].display
        /\ assets = IF r.s = NilService THEN NilFS ELSE r.s[1].assets
        /\ opts = IF r.s = NilService THEN o ELSE r.s[1].opts
        /\ globalApp = a
        /\ lastInit = NoInit
        /\ captured = NoMsg
        /\ ret = Called("New", <<>>, core, display, a, Outcome(r.err, <<>>))
        /\ calls = NoCalls
        /\ initCall = NoInitCall
        /\ log = <<>>

\* After New(Options{}) in a correctly built binary: no collaborator is
\* injected.  The application singleton may or may not be running already.
Init ==
    \E a \in Apps :
        Constructed([Source |-> "", Assets |-> NilFS],
                    [fs |-> SubFS("public"), err |-> Nil], a)

\* After New(o) for any options o, whatever fs.Sub returns.
InitNew ==
    \E o \in OptionsGiven, sub \in SubResults, a \in Apps : Constructed(o, sub, a)

\* The caller holds a service: New did not return nil.
HasService == newCall.s # NilService

\* func (s *Service) Init(c Core, d Display)
ServiceInit_SetOnce(c, d) ==
    /\ HasService
    /\ core' = IF lastInit.called THEN core ELSE c
    /\ display' = IF lastInit.called THEN display ELSE d
    /\ lastInit' = [called |-> TRUE, core |-> c, display |-> d]
    /\ ret' = Called("Init", <<>>, c, d, globalApp, Outcome(Nil, <<>>))
    /\ UNCHANGED <<assets, opts, globalApp, newCall, captured, conc>>
ServiceInit(c, d) ==
    /\ HasService
    /\ core' = c
    /\ display' = d
    /\ lastInit' = [called |-> TRUE, core |-> c, display |-> d]
    /\ ret' = Called("Init", <<>>, c, d, globalApp, Outcome(Nil, <<>>))
    /\ UNCHANGED <<assets, opts, globalApp, newCall, captured, conc>>

\* application.New(...): the singleton starts running.
ApplicationNew ==
    /\ globalApp = Nil
    /\ globalApp' = "app"
    /\ UNCHANGED <<core, display, assets, opts, newCall, lastInit, captured, ret, conc>>

\* What ServiceStartup, Show and ShowAt leave alone.
ServiceUnchanged ==
    UNCHANGED <<core, display, assets, opts, globalApp, newCall, lastInit, conc>>

DoServiceStartup_ResetsOptions ==
    /\ HasService
    /\ ret' = Called("ServiceStartup", <<>>, core, display, globalApp, ServiceStartup(core))
    /\ opts' = [opts EXCEPT !.Source = "mkdocs"]
    /\ UNCHANGED <<core, display, assets, globalApp, newCall, lastInit, captured, conc>>
DoServiceStartup ==
    /\ HasService
    /\ ret' = Called("ServiceStartup", <<>>, core, display, globalApp, ServiceStartup(core))
    /\ ServiceUnchanged
    /\ UNCHANGED captured

\* s.Show(), the core's ACTION returning e.
ShowStep_DropsDisplay(e) ==
    /\ HasService
    /\ ret' = Called("Show", <<>>, core, display, globalApp,
                     Show(core, display, globalApp, e))
    /\ display' = Nil
    /\ UNCHANGED <<core, assets, opts, globalApp, newCall, lastInit, conc>>
ShowStep(e) ==
    /\ HasService
    /\ ret' = Called("Show", <<>>, core, display, globalApp,
                     Show(core, display, globalApp, e))
    /\ ServiceUnchanged

\* s.ShowAt(anchor), the core's ACTION returning e.
ShowAtStep(anchor, e) ==
    /\ HasService
    /\ ret' = Called("ShowAt", anchor, core, display, globalApp,
                     ShowAt(anchor, core, display, globalApp, e))
    /\ ServiceUnchanged

DoShow == \E e \in ActionErrs : ShowStep(e) /\ UNCHANGED captured

DoShowAt == \E anchor \in Anchors, e \in ActionErrs : ShowAtStep(anchor, e) /\ UNCHANGED captured

DoInit == \E c \in Cores \cup {Nil}, d \in Displays \cup {Nil} : ServiceInit(c, d)

Next ==
    \/ DoInit
    \/ ApplicationNew
    \/ DoServiceStartup
    \/ DoShow
    \/ DoShowAt

Spec == Init /\ [][Next]_vars

\* Every construction, then any calls.
SpecNew == InitNew /\ [][Next]_vars

\* After New(Options{}) and a first Init(core1, display1), as setupService
\* leaves the service.
InitInjected ==
    \E a \in Apps :
        /\ newCall = [opts |-> [Source |-> "", Assets |-> NilFS],
                      s |-> New([Source |-> "", Assets |-> NilFS],
                                [fs |-> SubFS("public"), err |-> Nil]).s,
                      err |-> Nil]
        /\ core = "core1"
        /\ display = "display1"
        /\ assets = SubFS("public")
        /\ opts = [Source |-> "mkdocs", Assets |-> NilFS]
        /\ globalApp = a
        /\ lastInit = [called |-> TRUE, core |-> "core1", display |-> "display1"]
        /\ captured = NoMsg
        /\ ret = Called("Init", <<>>, "core1", "display1", a, Outcome(Nil, <<>>))
        /\ calls = NoCalls
        /\ initCall = NoInitCall
        /\ log = <<>>

\* Any calls on a service that already had its collaborators injected.
SpecInjected == InitInjected /\ [][Next]_vars

\* The caller keeps the map of the first dispatch it sees (msg :=
\* mockCore.ActionMsg): a Go map is a reference, so what the caller holds is
\* the very map the call built, and it changes only if some later call
\* writes into that map.  r is the record of the call just made.
Keep(r) ==
    IF ~captured.kept /\ r.out # <<>> /\ r.out[1].call = "Core.ACTION"
    THEN [kept |-> TRUE, op |-> r.op, anchor |-> r.anchor, msg |-> r.out[1].msg]
    ELSE captured

\* s.Show() on a core that records its message.
DoShowKeep == \E e \in ActionErrs : ShowStep(e) /\ captured' = Keep(ret')

\* s.ShowAt(anchor) on a core that records its message.
DoShowAtKeep_SharedMap ==
    \E anchor \in Anchors, e \in ActionErrs :
        /\ ShowAtStep(anchor, e)
        /\ captured' = IF captured.kept
                       THEN [captured EXCEPT !.msg = ShowAtMsg(SprintfURL(anchor))]
                       ELSE Keep(ret')
DoShowAtKeep ==
    \E anchor \in Anchors, e \in ActionErrs :
        ShowAtStep(anchor, e) /\ captured' = Keep(ret')

NextCapture ==
    \/ DoShowKeep
    \/ DoShowAtKeep

\* Show and ShowAt calls in any order on an injected service, the caller
\* keeping the first message dispatched.
SpecCapture == InitInjected /\ [][NextCapture]_vars

----------------------------------------------------------------------------
\* The calls statement by statement.  The service has no lock: a goroutine
\* in Show or ShowAt reads s.core, then s.display, then s.core again when it
\* dispatches, and other goroutines run in between.

\* After New(Options{}) and Init(c, d), nobody calling yet.
InitConcurrent ==
    \E c \in Cores \cup {Nil}, d \in Displays \cup {Nil}, a \in Apps :
        /\ newCall = [opts |-> [Source |-> "", Assets |-> NilFS],
                      s |-> New([Source |-> "", Assets |-> NilFS],
                                [fs |-> SubFS("public"), err |-> Nil]).s,
                      err |-> Nil]
        /\ core = c
        /\ display = d
        /\ assets = SubFS("public")
        /\ opts = [Source |-> "mkdocs", Assets |-> NilFS]
        /\ globalApp = a
        /\ lastInit = [called |-> TRUE, core |-> c, display |-> d]
        /\ captured = NoMsg
        /\ ret = Called("Init", <<>>, c, d, a, Outcome(Nil, <<>>))
        /\ calls = NoCalls
        /\ initCall = NoInitCall
        /\ log = <<>>

\* What a step inside Show or ShowAt leaves alone.
InsideShow ==
    UNCHANGED <<core, display, assets, opts, globalApp, newCall, lastInit,
                captured, ret, initCall>>

\* The URL and the message of the call r.
UrlOf(r) == IF r.op = "Show" THEN <<"/">> ELSE SprintfURL(r.anchor)
MsgOf(r) == IF r.op = "Show" THEN ShowMsg ELSE ShowAtMsg(SprintfURL(r.anchor))

\* go s.Show(), go s.ShowAt(anchor): goroutine t enters the call.
CallBegin(t, op, anchor) ==
    /\ calls[t].pc = "idle"
    /\ calls' = [calls EXCEPT ![t] = [Idle EXCEPT !.pc = "core", !.op = op,
                                                  !.anchor = anchor]]
    /\ InsideShow
    /\ UNCHANGED log

\* if s.core == nil { return fmt.Errorf("core runtime not initialized") }
CheckCore(t) ==
    /\ calls[t].pc = "core"
    /\ calls' = [calls EXCEPT ![t] =
                    IF core = Nil
                    THEN [calls[t] EXCEPT !.c = core, !.pc = "done",
                                          !.err = "core runtime not initialized"]
                    ELSE [calls[t] EXCEPT !.c = core, !.pc = "display"]]
    /\ InsideShow
    /\ UNCHANGED log

\* if s.display == nil {
CheckDisplay(t) ==
    /\ calls[t].pc = "display"
    /\ calls' = [calls EXCEPT ![t] =
                    [calls[t] EXCEPT !.d = display,
                                     !.pc = IF display = Nil THEN "app" ELSE "dispatch"]]
    /\ InsideShow
    /\ UNCHANGED log

\* app := application.Get()
\* if app == nil { return fmt.Errorf("wails application not running") }
GetApp(t) ==
    /\ calls[t].pc = "app"
    /\ calls' = [calls EXCEPT ![t] =
                    IF globalApp = Nil
                    THEN [calls[t] EXCEPT !.a = globalApp, !.pc = "done",
                                          !.err = "wails application not running"]
                    ELSE [calls[t] EXCEPT !.a = globalApp, !.pc = "window"]]
    /\ InsideShow
    /\ UNCHANGED log

\* app.Window.NewWithOptions(...); return nil
RequestWindow(t) ==
    /\ calls[t].pc = "window"
    /\ LET call == CallNewWithOptions(calls[t].a, WebviewWindowOptions(UrlOf(calls[t])))
       IN  /\ log' = Append(log, [by |-> t, call |-> call])
           /\ calls' = [calls EXCEPT ![t] =
                           [calls[t] EXCEPT !.pc = "done", !.out = Append(@, call)]]
    /\ InsideShow

\* return s.core.ACTION(msg), ACTION returning e: s.core is read again, and
\* a method call on a nil interface panics.
DispatchACTION_SharedMessage(t, e) ==
    /\ calls[t].pc = "dispatch"
    /\ IF core = Nil
       THEN /\ calls' = [calls EXCEPT ![t] =
                            [calls[t] EXCEPT !.used = core, !.pc = "panicked",
                                             !.err = "panic: nil pointer dereference"]]
            /\ UNCHANGED log
       ELSE \E u \in Threads :
              /\ calls[u].pc # "idle"
              /\ LET call == CallACTION(core, MsgOf(calls[u]), e)
                 IN  /\ log' = Append(log, [by |-> t, call |-> call])
                     /\ calls' = [calls EXCEPT ![t] =
                                     [calls[t] EXCEPT !.used = core, !.pc = "done",
                                                      !.e = e, !.err = e,
                                                      !.out = Append(@, call)]]
    /\ InsideShow
DispatchACTION(t, e) ==
    /\ calls[t].pc = "dispatch"
    /\ IF core = Nil
       THEN /\ calls' = [calls EXCEPT ![t] =
                            [calls[t] EXCEPT !.used = core, !.pc = "panicked",
                                             !.err = "panic: nil pointer dereference"]]
            /\ UNCHANGED log
       ELSE LET call == CallACTION(core, MsgOf(calls[t]), e)
            IN  /\ log' = Append(log, [by |-> t, call |-> call])
                /\ calls' = [calls EXCEPT ![t] =
                                [calls[t] EXCEPT !.used = core, !.pc = "done",
                                                 !.e = e, !.err = e,
                                                 !.out = Append(@, call)]]
    /\ InsideShow

\* What a step inside Init leaves alone.
InsideInit ==
    UNCHANGED <<assets, opts, globalApp, newCall, captured, ret, calls, log>>

\* go s.Init(c, d): the re-initializing goroutine enters the call.
InitBegin(c, d) ==
    /\ HasService
    /\ initCall.pc = "idle"
    /\ initCall' = [pc |-> "core", core |-> c, display |-> d]
    /\ InsideInit
    /\ UNCHANGED <<core, display, lastInit>>

\* s.core = c
InitWriteCore ==
    /\ initCall.pc = "core"
    /\ core' = initCall.core
    /\ initCall' = [initCall EXCEPT !.pc = "display"]
    /\ InsideInit
    /\ UNCHANGED <<display, lastInit>>

\* s.display = d
InitWriteDisplay ==
    /\ initCall.pc = "display"
    /\ display' = initCall.display
    /\ initCall' = [initCall EXCEPT !.pc = "done"]
    /\ lastInit' = [called |-> TRUE, core |-> initCall.core, display |-> initCall.display]
    /\ InsideInit
    /\ UNCHANGED core

DoCallBegin(t) ==
    \/ CallBegin(t, "Show", <<>>)
    \/ \E anchor \in ThreadAnchors : CallBegin(t, "ShowAt", anchor)

DoDispatchACTION(t) == \E e \in ActionErrs : DispatchACTION(t, e)

DoInitBegin == \E c \in Cores \cup {Nil}, d \in Displays \cup {Nil} : InitBegin(c, d)

NextConcurrent ==
    \E t \in Threads :
        \/ DoCallBegin(t)
        \/ CheckCore(t)
        \/ CheckDisplay(t)
        \/ GetApp(t)
        \/ RequestWindow(t)
        \/ DoDispatchACTION(t)

\* Concurrent Show and ShowAt calls, no Init meanwhile.
SpecConcurrent == InitConcurrent /\ [][NextConcurrent]_vars

NextRace ==
    \/ NextConcurrent
    \/ DoInitBegin
    \/ InitWriteCore
    \/ InitWriteDisplay

\* Concurrent Show and ShowAt calls while one goroutine calls Init.
SpecRace == InitInjected /\ [][NextRace]_vars

----------------------------------------------------------------------------
\* What the claims speak of.

\* The last call was Show or ShowAt.
IsShowCall == ret.op \in {"Show", "ShowAt"}

\* The outbound calls of the last call whose names are in names.
OutCalls(names) == SelectSeq(ret.out, LAMBDA o : o.call \in names)

Dispatches == OutCalls({"Core.ACTION"})
WindowRequests == OutCalls({"Window.NewWithOptions"})
LoggerCalls == OutCalls({"Core.App", "App.Logger", "Logger.Info", "Logger.Error"})

TypeOK ==
    /\ core \in Cores \cup {Nil}
    /\ display \in Displays \cup {Nil}
    /\ globalApp \in Apps
    /\ ret.op \in {"New", "Init", "ServiceStartup", "Show", "ShowAt"}
    /\ ret.anchor \in Anchors
    /\ Len(ret.out) <= 4
    /\ assets \in {NilFS, CallerFS("myDocs"), SubFS("public")} \cup {DirFS(d) : d \in Sources}
    /\ opts \in OptionsGiven
    /\ (lastInit.called => (core = lastInit.core /\ display = lastInit.display))

----------------------------------------------------------------------------
\* The options every help window is asked for, without its URL.
HelpOptions == [Title |-> "Help", Width |-> 800, Height |-> 600]

\* C1: whenever Show or ShowAt runs on a service whose core is nil, whatever
\* the display is and whether or not the application singleton runs, it
\* returns the error "core runtime not initialized" and makes no outbound
\* call: no message is dispatched and no window is requested.
C1_NoCoreFails ==
    (IsShowCall /\ ret.core = Nil) =>
        /\ ret.err = "core runtime not initialized"
        /\ ret.out = <<>>

\* C1 happens: ShowAt ran without a core while a display was injected and
\* the singleton was running.
C1_Witness ==
    /\ ret.op = "ShowAt"
    /\ ret.anchor = <<"a">>
    /\ ret.core = Nil
    /\ ret.display \in Displays
    /\ ret.app # Nil
    /\ ret.err = "core runtime not initialized"

\* C2: with core and display injected, Show makes exactly one outbound call,
\* the dispatch through its core of {action: "display.open_window", name:
\* "help", options: {Title: "Help", Width: 800, Height: 600}}, whose options
\* have no URL key; ShowAt dispatches a message with the same action and name.
C2_DispatchedMessage ==
    (IsShowCall /\ ret.core # Nil /\ ret.display # Nil) =>
        /\ Len(ret.out) = 1
        /\ ret.out[1].call = "Core.ACTION"
        /\ ret.out[1].on = ret.core
        /\ ret.out[1].msg.action = "display.open_window"
        /\ ret.out[1].msg.name = "help"
        /\ DOMAIN ret.out[1].msg = {"action", "name", "options"}
        /\ ret.op = "Show" =>
              /\ ret.out[1].msg.options = HelpOptions
              /\ "URL" \notin DOMAIN ret.out[1].msg.options

\* C2 happens: Show dispatched with both collaborators injected.
C2_Witness ==
    /\ ret.op = "Show"
    /\ ret.core \in Cores
    /\ ret.display \in Displays
    /\ Len(Dispatches) = 1
    /\ ret.err = Nil

C4_DispatchResultReturned ==
    (IsShowCall /\ ret.core # Nil /\ ret.display # Nil) =>
        /\ Len(Dispatches) = 1
        /\ ret.err = Dispatches[1].ret

\* C4 happens: a dispatch failed and ShowAt returned its error.
C4_Witness ==
    /\ ret.op = "ShowAt"
    /\ ret.core \in Cores
    /\ ret.display \in Displays
    /\ Len(Dispatches) = 1
    /\ Dispatches[1].ret = "assert.AnError general error for testing"
    /\ ret.err = "assert.AnError general error for testing"

C6_DisplayNotInitialized ==
    (IsShowCall /\ ret.core # Nil /\ ret.display = Nil) =>
        ret.err = "display service not initialized"

C8_Original ==
    (ret.op = "ServiceStartup" /\ ret.core = Nil) =>
        ret.err = "core not initialized"

\* C8, amended: ServiceStartup on a service without a core fails with the
\* message "core runtime not initialized".
C8_StartupNoCoreMessage ==
    (ret.op = "ServiceStartup" /\ ret.core = Nil) =>
        ret.err = "core runtime not initialized"

\* C8 happens: ServiceStartup ran on the freshly constructed service.
C8_Witness ==
    /\ ret.op = "ServiceStartup"
    /\ ret.core = Nil
    /\ ret.display = Nil
    /\ ret.err # Nil

\* C9: ServiceStartup on a service whose core is nil fails with exactly
\* "core runtime not initialized" and calls neither the core's App accessor
\* nor the logger.
C9_StartupNoCoreNoLog ==
    (ret.op = "ServiceStartup" /\ ret.core = Nil) =>
        /\ ret.err = "core runtime not initialized"
        /\ LoggerCalls = <<>>
        /\ ret.out = <<>>

\* C9 happens: ServiceStartup ran after Init(nil, display).
C9_Witness ==
    /\ ret.op = "ServiceStartup"
    /\ ret.core = Nil
    /\ ret.display \in Displays
    /\ ret.err = "core runtime not initialized"

\* C10: ServiceStartup on a service with a core returns nil and logs exactly
\* one informational message through its core's application logger, whatever
\* the display is and whether or not the singleton runs; it logs no error,
\* dispatches nothing and requests no window.
C10_StartupLogsOnce ==
    (ret.op = "ServiceStartup" /\ ret.core # Nil) =>
        /\ ret.err = Nil
        /\ Len(OutCalls({"Logger.Info"})) = 1
        /\ OutCalls({"Logger.Info"})[1].on = ret.core
        /\ OutCalls({"Logger.Error"}) = <<>>
        /\ Dispatches = <<>>
        /\ WindowRequests = <<>>

\* C10 happens: ServiceStartup logged on a service with a core, without a
\* display and without a running singleton.
C10_Witness ==
    /\ ret.op = "ServiceStartup"
    /\ ret.core \in Cores
    /\ ret.display = Nil
    /\ ret.app = Nil
    /\ Len(OutCalls({"Logger.Info"})) = 1
    /\ ret.err = Nil

\* C11: New picks the asset source from (Assets, Source) in strict priority:
\* a supplied Assets is used whatever Source is; otherwise a Source that is
\* neither empty nor "mkdocs" gives the directory Source; otherwise the
\* embedded subtree "public" is used.  The empty Source is stored as "mkdocs"
\* and gives what "mkdocs" gives; the stored options never hold an empty Source.
C11_AssetPriority ==
    LET o == newCall.opts
        given == o.Assets # [kind |-> "nil", of |-> ""]
        custom == o.Source \notin {"", "mkdocs"}
        made == newCall.s # <<>>
    IN  /\ given => (made /\ newCall.s[1].assets = o.Assets)
        /\ (~given /\ custom) =>
              (made /\ newCall.s[1].assets = [kind |-> "os.DirFS", of |-> o.Source])
        /\ (~given /\ ~custom /\ made) =>
              newCall.s[1].assets = [kind |-> "fs.Sub(helpStatic)", of |-> "public"]
        /\ made =>
              /\ newCall.s[1].opts.Source # ""
              /\ newCall.s[1].opts.Source = (IF o.Source = "" THEN "mkdocs" ELSE o.Source)
              /\ newCall.s[1].opts.Assets = o.Assets
              /\ ret.op = "New" => (assets = newCall.s[1].assets /\ opts = newCall.s[1].opts)

\* C11 happens: New was given both an Assets filesystem and a directory
\* Source, and the service holds the filesystem.
C11_Witness ==
    /\ ret.op = "New"
    /\ newCall.opts.Source = "path/to/your/static/site"
    /\ newCall.opts.Assets = CallerFS("myDocs")
    /\ newCall.s # NilService
    /\ assets = CallerFS("myDocs")

\* C12: New returns exactly one of a service and an error, never both and
\* never neither, and a returned service has a nil core and a nil display.
C12_ServiceXorError ==
    /\ (newCall.s # <<>>) # (newCall.err # "nil")
    /\ newCall.s # <<>> =>
          (newCall.s[1].core = "nil" /\ newCall.s[1].display = "nil")
    /\ (ret.op = "New" /\ newCall.s # <<>>) => (core = "nil" /\ display = "nil")

\* C12 happens: the embedded subtree was not found and New returned an error
\* and no service.
C12_Witness ==
    /\ ret.op = "New"
    /\ newCall.opts = [Source |-> "", Assets |-> NilFS]
    /\ newCall.s = NilService
    /\ newCall.err # Nil

\* A mapping without its URL key.
WithoutURL(options) == [k \in DOMAIN options \ {"URL"} |-> options[k]]

\* Two outbound calls that differ at most in the URL they carry.
SameButURL(x, y) ==
    /\ x.call = y.call
    /\ x.on = y.on
    /\ x.call = "Core.ACTION" =>
          /\ x.ret = y.ret
          /\ x.msg.action = y.msg.action
          /\ x.msg.name = y.msg.name
          /\ WithoutURL(x.msg.options) = WithoutURL(y.msg.options)
    /\ x.call = "Window.NewWithOptions" =>
          WithoutURL(x.options) = WithoutURL(y.options)

\* Two outcomes on the same path: the same error, and the same outbound calls
\* but for the URL.
SamePath(a, b) ==
    /\ a.err = b.err
    /\ Len(a.out) = Len(b.out)
    /\ \A i \in 1..Len(a.out) : SameButURL(a.out[i], b.out[i])

\* What the dispatch of the last call returned; any value when it made none.
DispatchResults == IF Dispatches # <<>> THEN {Dispatches[1].ret} ELSE ActionErrs

\* C13: Show and ShowAt order their checks alike: whatever core, display,
\* singleton and dispatch result a Show call met, ShowAt(anchor) meeting the
\* same takes the same path (precheck failure, dispatch or fallback window)
\* and returns the same error or success for every anchor, and the other way
\* round; the outbound calls differ only in the URL.
C13_SameOrdering ==
    /\ ret.op = "Show" =>
          \A anchor \in Anchors, e \in DispatchResults :
              SamePath(ret, ShowAt(anchor, ret.core, ret.display, ret.app, e))
    /\ ret.op = "ShowAt" =>
          \A e \in DispatchResults :
              SamePath(ret, Show(ret.core, ret.display, ret.app, e))

\* C13 happens: ShowAt ran with neither core nor display while the singleton
\* was running, the state in which the order of the checks decides the path.
C13_Witness ==
    /\ ret.op = "ShowAt"
    /\ ret.core = Nil
    /\ ret.display = Nil
    /\ ret.app = "app"
    /\ ret.out = <<>>
    /\ ret.err = "core runtime not initialized"

\* C14: Init never fails and stores both arguments whatever they are, nil
\* included: after any number of Init calls core and display are the
\* arguments of the latest one, and a ServiceStartup, Show or ShowAt that
\* follows sees these values alone; so after Init with a nil core, Show,
\* ShowAt and ServiceStartup fail with "core runtime not initialized" even
\* when an earlier Init had injected a core.
C14_LatestInitWins ==
    /\ lastInit.called => (core = lastInit.core /\ display = lastInit.display)
    /\ ret.op = "Init" => (ret.err = Nil /\ ret.out = <<>>)
    /\ ret.op \in {"ServiceStartup", "Show", "ShowAt"} =>
          /\ ret.core = lastInit.core
          /\ ret.display = lastInit.display
          /\ lastInit.core = Nil => ret.err = "core runtime not initialized"
          /\ (lastInit.core # Nil /\ ret.op = "ServiceStartup") => ret.err = Nil
          /\ (IsShowCall /\ lastInit.core # Nil /\ lastInit.display # Nil) =>
                Len(Dispatches) = 1

\* C14 happens: on a service that had core1 and display1 injected, a later
\* Init passed a nil core and Show then failed.
C14_Witness ==
    /\ newCall.err = Nil
    /\ lastInit = [called |-> TRUE, core |-> Nil, display |-> "display1"]
    /\ core = Nil
    /\ display = "display1"
    /\ ret.op = "Show"
    /\ ret.err = "core runtime not initialized"

\* C15 as the specification states it: once an Init call has set core and
\* display, no later operation, a later Init call included, changes either.
C15_Original ==
    [][lastInit.called => (core' = core /\ display' = display)]_vars

\* C15, amended: core and display are changed by Init calls only, the first
\* and every later one, each storing its two arguments; no ServiceStartup,
\* Show or ShowAt changes either reference.
C15_OnlyInitChanges ==
    [][(core' # core \/ display' # display) =>
          /\ ret'.op = "Init"
          /\ ret' # ret
          /\ core' = ret'.core
          /\ display' = ret'.display]_vars

\* C15 happens: after an Init that injected both collaborators, Show ran and
\* the service still holds them.
C15_Witness ==
    /\ lastInit.called
    /\ lastInit.core = "core2"
    /\ lastInit.display = "display2"
    /\ ret.op = "Show"
    /\ core = "core2"
    /\ display = "display2"

\* The number of fragment separators in a string.
RECURSIVE Hashes(_)
Hashes(str) ==
    IF str = <<>> THEN 0
    ELSE (IF Head(str) = "#" THEN 1 ELSE 0) + Hashes(Tail(str))

\* The URL the last call passed on, to the core or to the window.
PassedURL ==
    IF ret.out[1].call = "Core.ACTION"
    THEN ret.out[1].msg.options.URL
    ELSE ret.out[1].options.URL

\* C16: ShowAt normalizes its anchor into a URL: for an anchor made of a page
\* path and a fragment ("ui/how/settings#resetPassword") the URL passed on
\* has one fragment separator, the page path before it and the fragment
\* after it; it is not the raw anchor put behind "/#".
C16_AnchorNormalized ==
    (/\ ret.op = "ShowAt"
     /\ ret.out # <<>>
     /\ Hashes(ret.anchor) = 1
     /\ Head(ret.anchor) # "#") =>
        /\ Hashes(PassedURL) = 1
        /\ PassedURL # <<"/", "#">> \o ret.anchor

\* C17: a Show or ShowAt call makes at most one outbound call: none when it
\* fails a precheck (no core, or no display and no running singleton),
\* otherwise exactly one, a dispatch when a display is present and a window
\* request when it is absent, never both; a dispatch that failed is neither
\* repeated nor followed by a window request.
C17_AtMostOneOutboundCall ==
    IsShowCall =>
        /\ Len(ret.out) <= 1
        /\ (ret.core = Nil \/ (ret.display = Nil /\ ret.app = Nil)) => ret.out = <<>>
        /\ (ret.core # Nil /\ ret.display # Nil) =>
              (Len(ret.out) = 1 /\ Len(Dispatches) = 1 /\ WindowRequests = <<>>)
        /\ (ret.core # Nil /\ ret.display = Nil /\ ret.app # Nil) =>
              (Len(ret.out) = 1 /\ Len(WindowRequests) = 1 /\ Dispatches = <<>>)
        /\ (Dispatches # <<>> /\ Dispatches[1].ret # Nil) =>
              (ret.out = <<Dispatches[1]>> /\ ret.err = Dispatches[1].ret)

\* C17 happens: Show's dispatch failed while the singleton was running, and
\* Show made no second call.
C17_Witness ==
    /\ ret.op = "Show"
    /\ ret.app = "app"
    /\ Len(Dispatches) = 1
    /\ Dispatches[1].ret = "no handler for action"
    /\ Len(ret.out) = 1
    /\ WindowRequests = <<>>

\* C18: only ServiceStartup touches the logger: New, Init, Show and ShowAt,
\* on success and on every failure (no core, singleton not running, dispatch
\* error), call neither the core's App accessor nor the logger's Info or
\* Error.
C18_OnlyStartupLogs ==
    ret.op \in {"New", "Init", "Show", "ShowAt"} =>
        /\ LoggerCalls = <<>>
        /\ \A i \in 1..Len(ret.out) :
              ret.out[i].call \in {"Core.ACTION", "Window.NewWithOptions"}

\* C18 happens: ShowAt's dispatch failed and nothing was logged.
C18_Witness ==
    /\ ret.op = "ShowAt"
    /\ ret.anchor = <<" ">>
    /\ Len(Dispatches) = 1
    /\ Dispatches[1].ret = "no handler for action"
    /\ ret.err = "no handler for action"
    /\ LoggerCalls = <<>>

\* The last two calls were the same call in the same environment.
SameCallAgain ==
    /\ ret'.op = ret.op
    /\ ret'.anchor = ret.anchor
    /\ ret'.app = ret.app
    /\ Len(OutCalls({"Core.ACTION"})') = Len(OutCalls({"Core.ACTION"}))
    /\ \A i \in 1..Len(OutCalls({"Core.ACTION"})) :
          OutCalls({"Core.ACTION"})'[i].ret = OutCalls({"Core.ACTION"})[i].ret

\* C19: ServiceStartup, Show and ShowAt leave the service as it was: on every
\* path the core, display, assets and opts fields after the call are those
\* before it, so the same call repeated in the same environment (the same
\* singleton, the same dispatch result) has the same outcome.
C19_ServiceUntouched ==
    [][ret'.op \in {"ServiceStartup", "Show", "ShowAt"} =>
          /\ core' = core
          /\ display' = display
          /\ assets' = assets
          /\ opts' = opts
          /\ SameCallAgain => ret' = ret]_vars

\* C19 happens: Show failed on a service made from a directory source, and
\* the service is as New and Init left it.
C19_Witness ==
    /\ ret.op = "Show"
    /\ ret.err = "wails application not running"
    /\ assets = DirFS("no/such/dir")
    /\ opts = [Source |-> "no/such/dir", Assets |-> NilFS]
    /\ core = lastInit.core
    /\ display = Nil

\* C20: every call builds its message anew and nothing carries over: after
\* any earlier Show and ShowAt calls, Show dispatches options without a URL
\* key and ShowAt(a) dispatches the URL "/#" + a of its own argument, not of
\* an earlier anchor; and a message kept from an earlier dispatch stays as
\* that call built it, whatever is called later.
C20_FreshMessage ==
    /\ (ret.op = "Show" /\ Dispatches # <<>>) =>
          DOMAIN Dispatches[1].msg.options = {"Title", "Width", "Height"}
    /\ (ret.op = "ShowAt" /\ Dispatches # <<>>) =>
          Dispatches[1].msg.options.URL = <<"/", "#">> \o ret.anchor
    /\ (captured.kept /\ captured.op = "Show") =>
          captured.msg = [action |-> "display.open_window", name |-> "help",
                          options |-> [Title |-> "Help", Width |-> 800, Height |-> 600]]
    /\ (captured.kept /\ captured.op = "ShowAt") =>
          captured.msg = [action |-> "display.open_window", name |-> "help",
                          options |-> [Title |-> "Help", Width |-> 800, Height |-> 600,
                                       URL |-> <<"/", "#">> \o captured.anchor]]

\* C20 happens: a message was kept from ShowAt("a"), then Show dispatched a
\* message without URL, and the kept message still carries "/#a".
C20_Witness ==
    /\ captured.kept
    /\ captured.op = "ShowAt"
    /\ captured.anchor = <<"a">>
    /\ captured.msg.options.URL = <<"/", "#", "a">>
    /\ ret.op = "Show"
    /\ Len(Dispatches) = 1
    /\ "URL" \notin DOMAIN Dispatches[1].msg.options

\* What op(anchor) gives with the fields c, d, the singleton a and the
\* dispatch result e.
Run(op, anchor, c, d, a, e) ==
    IF op = "Show" THEN Show(c, d, a, e) ELSE ShowAt(anchor, c, d, a, e)

\* C21: the display is used for presence only.  No outbound call is made on
\* a display (the calls go to the core, or to the application singleton);
\* when a display is present, the outbound calls and the result of Show and
\* ShowAt are the same whichever display it is and whether or not the
\* singleton runs; and a call on the singleton is made only with the display
\* absent.
C21_DisplayPresenceOnly ==
    /\ \A i \in 1..Len(ret.out) : ret.out[i].on \notin Displays
    /\ (IsShowCall /\ ret.display # Nil) =>
          /\ WindowRequests = <<>>
          /\ \A d \in Displays, a \in Apps, e \in ActionErrs :
                (Dispatches = <<>> \/ Dispatches[1].ret = e) =>
                    Run(ret.op, ret.anchor, ret.core, d, a, e)
                        = Outcome(ret.err, ret.out)
    /\ (IsShowCall /\ WindowRequests # <<>>) => ret.display = Nil

\* C21 happens: with display2 injected and no application running,
\* ShowAt("a") dispatched to the core and returned the dispatch's error.
C21_Witness ==
    /\ ret.op = "ShowAt"
    /\ ret.anchor = <<"a">>
    /\ ret.display = "display2"
    /\ ret.app = Nil
    /\ Len(Dispatches) = 1
    /\ Dispatches[1].on = ret.core
    /\ ret.err = "no handler for action"

\* C25: New can fail only on the embedded-default branch.  For the options
\* New was called with, whatever fs.Sub returns: with Assets supplied, or
\* with a Source that is a directory (one that does not exist included), New
\* returns a service and no error; New returns an error exactly when neither
\* is given and fs.Sub failed, the error is fs.Sub's, and no service comes
\* with it.  The call that was made is one of these.
C25_FailsOnlyOnEmbedded ==
    LET o == newCall.opts
        given == o.Assets # NilFS
        custom == o.Source \notin {"", "mkdocs"}
    IN  /\ \A sub \in SubResults :
              LET r == New(o, sub)
              IN  /\ (given \/ custom) => (r.s # NilService /\ r.err = Nil)
                  /\ r.err # Nil <=> (~given /\ ~custom /\ sub.err # Nil)
                  /\ r.err # Nil => (r.err = sub.err /\ r.s = NilService)
        /\ \E sub \in SubResults :
              newCall = [opts |-> o, s |-> New(o, sub).s, err |-> New(o, sub).err]
        /\ newCall.err # Nil => (~given /\ ~custom /\ newCall.s = NilService)

\* C25 happens: New was called with a Source naming a directory that does
\* not exist and no Assets, and returned a service over that directory and
\* no error.
C25_Witness ==
    /\ ret.op = "New"
    /\ newCall.opts = [Source |-> "no/such/dir", Assets |-> NilFS]
    /\ newCall.s # NilService
    /\ newCall.err = Nil
    /\ assets = DirFS("no/such/dir")

\* What the display-first variant gives for op(anchor) with the fields c, d,
\* the singleton a and the dispatch result e.
RunDisplayFirst(op, anchor, c, d, a, e) ==
    IF op = "Show" THEN ShowDisplayFirst(c, d, a, e)
    ELSE ShowAtDisplayFirst(anchor, c, d, a, e)

\* C24: the core-first and the display-first variant of Show and ShowAt make
\* the same outbound calls and return the same result in every state but
\* the one with neither core nor display.  There the core-first variant
\* fails with "core runtime not initialized" and calls nothing, and the
\* display-first variant takes the fallback: it fails with "wails
\* application not running" when no application runs, and otherwise
\* requests one window and returns no error.
C24_VariantsAgree ==
    IsShowCall =>
        \A e \in ActionErrs :
            LET first == Run(ret.op, ret.anchor, ret.core, ret.display, ret.app, e)
                other == RunDisplayFirst(ret.op, ret.anchor, ret.core, ret.display,
                                         ret.app, e)
            IN  /\ (Dispatches = <<>> \/ Dispatches[1].ret = e) =>
                      first = Outcome(ret.err, ret.out)
                /\ ~(ret.core = Nil /\ ret.display = Nil) => other = first
                /\ (ret.core = Nil /\ ret.display = Nil) =>
                      /\ first = Outcome("core runtime not initialized", <<>>)
                      /\ ret.app = Nil =>
                            other = Outcome("wails application not running", <<>>)
                      /\ ret.app # Nil =>
                            /\ other.err = Nil
                            /\ Len(other.out) = 1
                            /\ other.out[1].call = "Window.NewWithOptions"
                            /\ other.out[1].on = ret.app
                            /\ other.out[1].options.URL =
                                  (IF ret.op = "Show" THEN <<"/">>
                                   ELSE <<"/", "#">> \o ret.anchor)

\* C24 happens: ShowAt("a") was called with neither core nor display while
\* the application runs; it failed on the core, where the display-first
\* variant requests a window at "/#a".
C24_Witness ==
    /\ ret.op = "ShowAt"
    /\ ret.anchor = <<"a">>
    /\ ret.core = Nil
    /\ ret.display = Nil
    /\ ret.app = "app"
    /\ ret.err = "core runtime not initialized"
    /\ ShowAtDisplayFirst(ret.anchor, ret.core, ret.display, ret.app, Nil).out
          = <<CallNewWithOptions("app", WebviewWindowOptions(<<"/", "#", "a">>))>>

\* The outbound calls goroutine t made, as the collaborators received them.
LogOf(t) ==
    LET mine == SelectSeq(log, LAMBDA x : x.by = t)
    IN  [i \in 1..Len(mine) |-> mine[i].call]

\* The call of goroutine t passes its prechecks in the present state: there
\* is a core, and a display or a running application.
PassesPrechecks(t) ==
    /\ calls[t].pc # "idle"
    /\ core # Nil
    /\ display # Nil \/ globalApp # Nil

\* C22: concurrent Show and ShowAt calls on one service, no Init running,
\* do not interfere.  In every interleaving a finished call has made
\* exactly the outbound calls and returned exactly the result the same call
\* gives when run alone in that state (with the dispatch result it got);
\* the collaborators received from each goroutine just what it sent; no
\* call panics; the number of dispatches and window requests received is
\* the number of finished calls that pass the prechecks; and the service
\* fields and the singleton are as they were before the calls.
C22_NoInterference ==
    /\ \A t \in Threads :
          /\ calls[t].pc # "panicked"
          /\ LogOf(t) = calls[t].out
          /\ calls[t].pc = "done" =>
                /\ Outcome(calls[t].err, calls[t].out)
                      = Run(calls[t].op, calls[t].anchor, core, display, globalApp,
                            calls[t].e)
                /\ Len(calls[t].out) = (IF PassesPrechecks(t) THEN 1 ELSE 0)
          /\ calls[t].pc # "done" => calls[t].out = <<>>
    /\ Len(log) = Cardinality({t \in Threads : calls[t].pc = "done" /\ PassesPrechecks(t)})
    /\ core = ret.core
    /\ display = ret.display
    /\ globalApp = ret.app
    /\ lastInit = [called |-> TRUE, core |-> ret.core, display |-> ret.display]

\* C22 happens: Show and ShowAt("a") ran concurrently on an injected
\* service; ShowAt's dispatch reached the core first although both had
\* passed their checks, and each dispatched its own message.
C22_Witness ==
    /\ calls["t1"].op = "Show"
    /\ calls["t2"].op = "ShowAt"
    /\ calls["t2"].anchor = <<"a">>
    /\ calls["t1"].pc = "done"
    /\ calls["t2"].pc = "done"
    /\ Len(log) = 2
    /\ log[1].by = "t2"
    /\ log[1].call.msg.options.URL = <<"/", "#", "a">>
    /\ log[2].by = "t1"
    /\ "URL" \notin DOMAIN log[2].call.msg.options
    /\ calls["t1"].err = "no handler for action"
    /\ calls["t2"].err = Nil

\* C23: in every interleaving of a Show or ShowAt call with a concurrent
\* Init call, the dispatch is made on a non-nil core, the core the call
\* dispatches on is the one its entry check read, and the core and the
\* display it read both come from one Init call (the one before the calls,
\* or the concurrent one).
C23_CheckStillHolds ==
    \A t \in Threads :
        /\ calls[t].pc # "panicked"
        /\ calls[t].used # Unread =>
              /\ calls[t].used # Nil
              /\ calls[t].used = calls[t].c
        /\ calls[t].d # Unread =>
              \/ (calls[t].c = ret.core /\ calls[t].d = ret.display)
              \/ /\ initCall.pc # "idle"
                 /\ calls[t].c = initCall.core
                 /\ calls[t].d = initCall.display

====
